---------------------------- MODULE Spec2Model ----------------------------
(***************************************************************************)
(* A model of the TON mixer API: the message encoders and the signed       *)
(* envelope of src/types/mod.rs, the ledger gateway of src/ton/mod.rs and  *)
(* the HTTP handlers of src/controllers/mixer.rs and src/services/mixer.rs.*)
(*                                                                         *)
(* Fixed-width machine integers (u8, u32, u64) and BigUint values are      *)
(* sequences of 16-bit limbs, least significant limb first, so that the    *)
(* 64-bit and 32-bit arithmetic of the code keeps its width.  Cells are    *)
(* records of a bit sequence and a sequence of child cells.                *)
(***************************************************************************)
EXTENDS Integers, Sequences, FiniteSets, TLC

VARIABLES overflowChecks, chainSeqno, req, unit

vars == <<overflowChecks, chainSeqno, req, unit>>

(***************************************************************************)
(* Limb arithmetic.  Sequences are built as tuples (SubSeq of a function), *)
(* and recursion is kept a few levels deep.                                *)
(***************************************************************************)
Base == 256 * 256

Zeros(n) == SubSeq([i \in 1..n |-> 0], 1, n)

Ones(n) == SubSeq([i \in 1..n |-> 1], 1, n)

\* the n-limb value of the small integer x
FromInt(x, n) ==
    SubSeq([i \in 1..n |-> IF i = 1 THEN x % Base
                           ELSE IF i = 2 THEN (x \div Base) % Base ELSE 0], 1, n)

\* a padded (or cut) to n limbs
Resize(a, n) == SubSeq([i \in 1..n |-> IF i <= Len(a) THEN a[i] ELSE 0], 1, n)

IsZero(a) == \A i \in 1..Len(a) : a[i] = 0

\* the value does not fit in n limbs
ExceedsLimbs(a, n) == \E i \in (n + 1)..Len(a) : a[i] # 0

\* a without its high zero limbs: the canonical form of a BigUint
Trim(a) ==
    LET nz == {i \in 1..Len(a) : a[i] # 0}
    IN  IF nz = {} THEN <<>>
        ELSE SubSeq(a, 1, CHOOSE i \in nz : \A j \in nz : j <= i)

RECURSIVE AddLimbs(_, _, _)
AddLimbs(a, b, c) ==
    IF a = <<>> THEN <<c>>
    ELSE LET s == Head(a) + Head(b) + c
         IN  <<s % Base>> \o AddLimbs(Tail(a), Tail(b), s \div Base)

\* the exact sum, one limb longer than the longer operand
Add(a, b) ==
    LET n == IF Len(a) >= Len(b) THEN Len(a) ELSE Len(b)
    IN  AddLimbs(Resize(a, n), Resize(b, n), 0)

RECURSIVE MulLimbs(_, _, _)
MulLimbs(a, k, c) ==
    IF a = <<>> THEN <<c>>
    ELSE LET p == Head(a) * k + c
         IN  <<p % Base>> \o MulLimbs(Tail(a), k, p \div Base)

\* the exact product with a small integer k < 2^15, one limb longer
MulSmall(a, k) == MulLimbs(a, k, 0)

RECURSIVE MulPow10(_, _)
\* a * 10^e, exact
MulPow10(a, e) ==
    IF e = 0 THEN a
    ELSE IF e >= 4 THEN MulPow10(Trim(MulSmall(a, 10000)), e - 4)
    ELSE MulPow10(Trim(MulSmall(a, 10)), e - 1)

U64Max == SubSeq([i \in 1..4 |-> Base - 1], 1, 4)

RECURSIVE DivLimbs(_, _, _)
\* a divided by the small integer k, from the high limb down, r the running
\* remainder: <<quotient limbs, remainder>>
DivLimbs(a, k, r) ==
    IF a = <<>> THEN <<(<<>>), r>>
    ELSE LET x == r * Base + a[Len(a)]
             rest == DivLimbs(SubSeq(a, 1, Len(a) - 1), k, x % k)
         IN  <<Append(rest[1], x \div k), rest[2]>>

\* the four decimal digits of x < 10000
Digits4(x) == <<x \div 1000, (x \div 100) % 10, (x \div 10) % 10, x % 10>>

RECURSIVE DecimalGroups(_)
\* the decimal digits of a in groups of four, most significant first
DecimalGroups(a) ==
    LET qr == DivLimbs(a, 10000, 0)
    IN  IF IsZero(qr[1]) THEN Digits4(qr[2])
        ELSE DecimalGroups(Trim(qr[1])) \o Digits4(qr[2])

\* u64::to_string: the decimal digits, most significant first, no leading zero
DecimalDigits(a) ==
    LET d == DecimalGroups(Trim(a))
        nz == {i \in 1..Len(d) : d[i] # 0}
    IN  IF nz = {} THEN <<0>>
        ELSE SubSeq(d, CHOOSE i \in nz : \A j \in nz : i <= j, Len(d))

RECURSIVE ParseDecimal(_)
\* BigUint::from_str of a string of decimal digits
ParseDecimal(digits) ==
    LET n == Len(digits)
        low == SubSeq(digits, IF n > 4 THEN n - 3 ELSE 1, n)
        v == [i \in 1..4 |-> IF i <= Len(low) THEN low[Len(low) + 1 - i] ELSE 0]
        x == v[1] + 10 * v[2] + 100 * v[3] + 1000 * v[4]
    IN  IF n <= 4 THEN Trim(<<x>>)
        ELSE Trim(Add(MulSmall(ParseDecimal(SubSeq(digits, 1, n - 4)), 10000), <<x>>))

(***************************************************************************)
(* Bit strings, most significant bit first                                 *)
(***************************************************************************)
\* the w low bits of the small integer x, w <= 16
IntBits(x, w) == SubSeq([i \in 1..w |-> (x \div 2 ^ (w - i)) % 2], 1, w)

\* all bits of the limbs of a
AllBits(a) ==
    LET n == Len(a)
    IN  SubSeq([j \in 1..(16 * n) |->
                   (a[n - ((j - 1) \div 16)] \div 2 ^ (15 - ((j - 1) % 16))) % 2],
               1, 16 * n)

\* the number of significant bits of a (BigUint::bits)
NumBits(a) ==
    LET all == AllBits(a)
        ones == {i \in 1..Len(all) : all[i] = 1}
    IN  IF ones = {} THEN 0
        ELSE Len(all) + 1 - (CHOOSE i \in ones : \A j \in ones : i <= j)

\* the w-bit big-endian representation of a; the value must fit
UintBits(a, w) ==
    LET all == AllBits(a)
        n == Len(all)
    IN  IF w <= n THEN SubSeq(all, n - w + 1, n) ELSE Zeros(w - n) \o all

\* the small integer that four bits denote
BitsInt4(b) == 8 * b[1] + 4 * b[2] + 2 * b[3] + b[4]

\* the small integer a bit string of at most 16 bits denotes
BitsInt(bits) ==
    LET b == Zeros(16 - Len(bits)) \o bits
    IN  4096 * BitsInt4(SubSeq(b, 1, 4)) + 256 * BitsInt4(SubSeq(b, 5, 8))
        + 16 * BitsInt4(SubSeq(b, 9, 12)) + BitsInt4(SubSeq(b, 13, 16))

\* the limbs a bit string denotes
BitsLimbs(bits) ==
    LET n == Len(bits)
        k == (n + 15) \div 16
    IN  SubSeq([i \in 1..k |->
                   BitsInt(SubSeq(bits, IF n - 16 * i + 1 < 1 THEN 1 ELSE n - 16 * i + 1,
                                  n - 16 * (i - 1)))],
               1, k)

XorBits(a, b) == SubSeq([i \in 1..Len(a) |-> (a[i] + b[i]) % 2], 1, Len(a))

(***************************************************************************)
(* OpcodeRegistry: CRC-32 (IEEE, reflected) of the operation name          *)
(***************************************************************************)
OpSpreadName == <<111, 112, 58, 58, 115, 112, 114, 101, 97, 100>>
OpCollectName == <<111, 112, 58, 58, 99, 111, 108, 108, 101, 99, 116>>
OpForkName == <<111, 112, 58, 58, 102, 111, 114, 107>>

\* 0xEDB88320
CrcPoly == UintBits(<<33568, 60856>>, 32)

\* one shift of the register, with the polynomial when a one falls out
CrcRound(crc) ==
    LET sh == <<0>> \o SubSeq(crc, 1, 31)
    IN  IF crc[32] = 1 THEN XorBits(sh, CrcPoly) ELSE sh

RECURSIVE CrcTableEntry(_)
\* the table entry of the byte value 2^(8-k): k - 1 rounds on the polynomial
CrcTableEntry(k) == IF k = 1 THEN CrcPoly ELSE CrcRound(CrcTableEntry(k - 1))

\* the table entries of the byte values 128, 64, ..., 1
CrcTable == SubSeq([k \in 1..8 |-> CrcTableEntry(k)], 1, 8)

\* the register after one byte: (crc >> 8) xor table[(crc xor byte) & 0xFF],
\* the table entry being the xor of the entries of the index's bits
CrcByte(crc, byte) ==
    LET idx == XorBits(SubSeq(crc, 25, 32), IntBits(byte, 8))
    IN  SubSeq([j \in 1..32 |->
                   ((IF j <= 8 THEN 0 ELSE crc[j - 8])
                    + Cardinality({k \in 1..8 : idx[k] = 1 /\ CrcTable[k][j] = 1})) % 2],
               1, 32)

RECURSIVE CrcUpdate(_, _)
\* Hasher::update: the register after the bytes, last byte outermost
CrcUpdate(crc, bytes) ==
    IF bytes = <<>> THEN crc
    ELSE CrcByte(CrcUpdate(crc, SubSeq(bytes, 1, Len(bytes) - 1)), bytes[Len(bytes)])

\* Hasher::new, update, finalize: a u32
generate_opcode(method_name) ==
    BitsLimbs(XorBits(CrcUpdate(Ones(32), method_name), Ones(32)))

MixerOpcodes ==
    [spread |-> generate_opcode(OpSpreadName),
     collect |-> generate_opcode(OpCollectName),
     fork |-> generate_opcode(OpForkName)]

\* GET /op_codes
get_opcodes == MixerOpcodes

(***************************************************************************)
(* CellTree: the builder of the cell library                               *)
(***************************************************************************)
MAX_CELL_BITS == 1023
MAX_CELL_REFERENCES == 4

CellBuilder_new == [bits |-> <<>>, refs |-> <<>>, err |-> FALSE]

store_bits(b, bits) ==
    IF b.err \/ Len(b.bits) + Len(bits) > MAX_CELL_BITS
    THEN [b EXCEPT !.err = TRUE]
    ELSE [b EXCEPT !.bits = b.bits \o bits]

\* store_u8 / store_u32 / store_u64 (bit_len, val): fails when val needs more bits
store_uint(b, w, val) ==
    IF NumBits(val) > w THEN [b EXCEPT !.err = TRUE]
    ELSE store_bits(b, UintBits(val, w))

store_bit(b, bit) == store_bits(b, <<IF bit THEN 1 ELSE 0>>)

store_reference(b, cell) ==
    IF b.err \/ Len(b.refs) >= MAX_CELL_REFERENCES
    THEN [b EXCEPT !.err = TRUE]
    ELSE [b EXCEPT !.refs = Append(b.refs, cell)]

\* addr_std: tag 10, no anycast, 8-bit workchain, 256-bit hash
store_address(b, addr) ==
    store_bits(b, <<1, 0>> \o <<0>> \o IntBits(addr.workchain % 256, 8)
                  \o UintBits(addr.hash_part, 256))

\* VarUInteger 16: 4-bit byte length, then the value in that many bytes
store_coins(b, val) ==
    IF IsZero(val) THEN store_bits(b, IntBits(0, 4))
    ELSE LET num_bytes == (NumBits(val) + 7) \div 8
         IN  IF num_bytes > 15 THEN [b EXCEPT !.err = TRUE]
             ELSE store_bits(store_bits(b, IntBits(num_bytes, 4)),
                             UintBits(val, num_bytes * 8))

\* CellBuilder::build: Result<Cell, _>
CellBuilder_build(b) ==
    IF b.err THEN [tag |-> "err"]
    ELSE [tag |-> "ok", cell |-> [bits |-> b.bits, refs |-> b.refs]]

Panic == [tag |-> "panic"]

\* Result::unwrap on a built cell
Unwrap(r) == IF r.tag = "ok" THEN r ELSE Panic

(***************************************************************************)
(* Request values                                                          *)
(***************************************************************************)
None == [some |-> FALSE]
Some(x) == [some |-> TRUE, val |-> x]

\* the address strings of the model and what TonAddress::from_str makes of them
AddrA == [workchain |-> 0, hash_part |-> SubSeq([i \in 1..16 |-> 4096 + i], 1, 16)]
AddrB == [workchain |-> -1, hash_part |-> SubSeq([i \in 1..16 |-> Base - i], 1, 16)]
MixerContract == [workchain |-> 0, hash_part |-> SubSeq([i \in 1..16 |-> 17 * i], 1, 16)]

TonAddress_from_str(s) ==
    IF s = "EQ_A" THEN [tag |-> "ok", val |-> AddrA]
    ELSE IF s = "EQ_B" THEN [tag |-> "ok", val |-> AddrB]
    ELSE [tag |-> "err"]

\* an f64 amount of whole currency units is sign, digits and a decimal exponent
\* counted in nano units: digits * 10^e10 nano
F64(neg, digits, e10) == [neg |-> neg, digits |-> digits, e10 |-> e10]

\* (amount * 1_000_000_000.0).round() as u64: the cast saturates
ToNano(a) ==
    IF a.neg THEN Zeros(4)
    ELSE LET x == MulPow10(FromInt(a.digits, 1), a.e10)
         IN  IF ExceedsLimbs(x, 4) THEN U64Max ELSE Resize(x, 4)

\* u64 addition: panics under overflow checks, wraps without
AddU64(checks, a, b) ==
    LET s == Add(a, b)
    IN  IF ExceedsLimbs(s, 4)
        THEN IF checks THEN Panic ELSE [tag |-> "ok", val |-> Resize(s, 4)]
        ELSE [tag |-> "ok", val |-> Resize(s, 4)]

\* u32 addition
AddU32(checks, a, b) ==
    LET s == Add(a, b)
    IN  IF ExceedsLimbs(s, 2)
        THEN IF checks THEN Panic ELSE [tag |-> "ok", val |-> Resize(s, 2)]
        ELSE [tag |-> "ok", val |-> Resize(s, 2)]

(***************************************************************************)
(* MessageEncoders                                                         *)
(***************************************************************************)
\* the timestamp stored before the opcode
ForkMessage_build_swapped(timestamp) ==
    Unwrap(CellBuilder_build(
        store_uint(store_uint(CellBuilder_new, 64, timestamp), 32, MixerOpcodes.fork)))

ForkMessage_build(timestamp) ==
    Unwrap(CellBuilder_build(
        store_uint(store_uint(CellBuilder_new, 32, MixerOpcodes.fork), 64, timestamp)))

SpreadMessage_build(mode, timestamp, amount, data) ==
    Unwrap(CellBuilder_build(
        store_reference(
            store_bit(
                store_uint(
                    store_uint(
                        store_uint(
                            store_uint(CellBuilder_new, 32, MixerOpcodes.spread),
                            64, timestamp),
                        64, amount),
                    8, FromInt(mode, 1)),
                TRUE),
            data)))

\* mode 3 built without asking for its fields
CollectMessage_build_lenient(mode, timestamp, jetton_wallet, amount) ==
    LET head == store_uint(
                    store_uint(
                        store_uint(CellBuilder_new, 32, MixerOpcodes.collect),
                        64, timestamp),
                    8, FromInt(mode, 1))
    IN  IF mode \in {0, 1, 2} THEN Unwrap(CellBuilder_build(head))
        ELSE IF mode = 3
        THEN IF jetton_wallet.some /\ amount.some
             THEN Unwrap(CellBuilder_build(
                      store_coins(store_address(head, jetton_wallet.val), amount.val)))
             ELSE Unwrap(CellBuilder_build(head))
        ELSE [tag |-> "err", msg |-> "Invalid collect mode"]

\* mode 3 with the amount stored before the address
CollectMessage_build_swapped(mode, timestamp, jetton_wallet, amount) ==
    LET head == store_uint(
                    store_uint(
                        store_uint(CellBuilder_new, 32, MixerOpcodes.collect),
                        64, timestamp),
                    8, FromInt(mode, 1))
    IN  IF mode \in {0, 1, 2} THEN Unwrap(CellBuilder_build(head))
        ELSE IF mode = 3
        THEN IF jetton_wallet.some /\ amount.some
             THEN Unwrap(CellBuilder_build(
                      store_address(store_coins(head, amount.val), jetton_wallet.val)))
             ELSE [tag |-> "err",
                   msg |-> "Jetton wallet and amount are required for mode 3"]
        ELSE [tag |-> "err", msg |-> "Invalid collect mode"]

\* Result<Cell, String>, or a panic of an unwrap inside
CollectMessage_build(mode, timestamp, jetton_wallet, amount) ==
    LET head == store_uint(
                    store_uint(
                        store_uint(CellBuilder_new, 32, MixerOpcodes.collect),
                        64, timestamp),
                    8, FromInt(mode, 1))
    IN  IF head.err THEN Panic
        ELSE IF mode \in {0, 1, 2} THEN Unwrap(CellBuilder_build(head))
        ELSE IF mode = 3
        THEN IF jetton_wallet.some /\ amount.some
             THEN Unwrap(CellBuilder_build(
                      store_coins(store_address(head, jetton_wallet.val), amount.val)))
             ELSE [tag |-> "err",
                   msg |-> "Jetton wallet and amount are required for mode 3"]
        ELSE [tag |-> "err", msg |-> "Invalid collect mode"]

RECURSIVE SpreadPayloadFold_backwards(_, _)
\* the loop run over the entries from the last to the first
SpreadPayloadFold_backwards(entries, payload) ==
    IF entries = <<>> THEN [tag |-> "ok", cell |-> payload]
    ELSE LET e == entries[Len(entries)]
             r == CellBuilder_build(
                      store_coins(
                          store_address(
                              store_reference(CellBuilder_new, payload), e.account),
                          e.amount))
         IN  IF r.tag # "ok" THEN Panic
             ELSE SpreadPayloadFold_backwards(SubSeq(entries, 1, Len(entries) - 1), r.cell)

RECURSIVE StoreEntries(_, _)
StoreEntries(b, entries) ==
    IF entries = <<>> THEN b
    ELSE StoreEntries(store_coins(store_address(b, Head(entries).account),
                                  Head(entries).amount),
                      Tail(entries))

\* all the entries packed into the one cell that references the empty cell
SpreadPayloadFold_packed(entries, payload) ==
    IF entries = <<>> THEN [tag |-> "ok", cell |-> payload]
    ELSE Unwrap(CellBuilder_build(
             StoreEntries(store_reference(CellBuilder_new, payload), entries)))

RECURSIVE SpreadPayloadFold(_, _)
SpreadPayloadFold(entries, payload) ==
    IF entries = <<>> THEN [tag |-> "ok", cell |-> payload]
    ELSE LET e == Head(entries)
             r == CellBuilder_build(
                      store_coins(
                          store_address(
                              store_reference(CellBuilder_new, payload), e.account),
                          e.amount))
         IN  IF r.tag # "ok" THEN Panic ELSE SpreadPayloadFold(Tail(entries), r.cell)

\* the payload chain of contract_invoke_spread
SpreadPayload(entries) ==
    LET empty == CellBuilder_build(CellBuilder_new)
    IN  SpreadPayloadFold(entries, empty.cell)

(***************************************************************************)
(* EnvelopeBuilder                                                         *)
(***************************************************************************)
ExpirySeconds == FromInt(60, 2)

\* the external body handed to the wallet for signing; signing, wrapping and
\* serialization keep its fields
create_external_singed_message(checks, seqno, destination_address, amount, now, body_payload) ==
    LET expire == AddU32(checks, Resize(now, 2), ExpirySeconds)
    IN  IF expire.tag # "ok" THEN Panic
        ELSE [tag |-> "ok",
              tx |-> [expire_at |-> expire.val,
                      seqno |-> seqno,
                      dest |-> destination_address,
                      value |-> amount,
                      body |-> body_payload]]

(***************************************************************************)
(* Services and the pure part of the LedgerGateway                         *)
(***************************************************************************)
RECURSIVE spread_map(_, _, _, _)
\* the closure of services::spread over the request items, in order
spread_map(checks, wallets, total, acc) ==
    IF wallets = <<>> THEN [tag |-> "ok", total |-> total, wallets |-> acc]
    ELSE LET v == Head(wallets)
             nano == ToNano(v.amount)
             sum == AddU64(checks, total, nano)
             account == TonAddress_from_str(v.account)
         IN  IF sum.tag # "ok" \/ account.tag # "ok" THEN Panic
             ELSE spread_map(checks, Tail(wallets), sum.val,
                             Append(acc, [account |-> account.val,
                                          amount |-> ParseDecimal(DecimalDigits(nano))]))

spread_service(checks, wallets) == spread_map(checks, wallets, Zeros(4), <<>>)

\* services::collect up to the call of the gateway
collect_service(payload) ==
    LET w == IF payload.jetton_wallet.some
             THEN TonAddress_from_str(payload.jetton_wallet.val)
             ELSE [tag |-> "none"]
    IN  IF w.tag = "err" THEN Panic
        ELSE [tag |-> "ok",
              data |-> [mode |-> payload.mode,
                        jetton_wallet |-> IF w.tag = "ok" THEN Some(w.val) ELSE None,
                        amount |-> IF payload.amount.some
                                   THEN Some(Trim(ToNano(payload.amount.val)))
                                   ELSE None]]

ForkValue == FromInt(5000000, 4)
SpreadFee == FromInt(5000000, 4)
CollectValue == FromInt(50000000, 4)

\* contract_invoke_fork from the fetched seqno to the signed envelope
fork_transaction(checks, seqno, now) ==
    LET body == ForkMessage_build(now)
    IN  IF body.tag # "ok" THEN Panic
        ELSE create_external_singed_message(checks, seqno, MixerContract, ForkValue,
                                            now, body.cell)

\* contract_invoke_spread from the fetched seqno to the signed envelope
spread_transaction(checks, seqno, now, total_amount, spread_payload) ==
    LET payload == SpreadPayload(spread_payload)
        body == IF payload.tag = "ok"
                THEN SpreadMessage_build(0, now, total_amount, payload.cell)
                ELSE Panic
        value == AddU64(checks, total_amount, SpreadFee)
    IN  IF payload.tag # "ok" \/ body.tag # "ok" \/ value.tag # "ok" THEN Panic
        ELSE create_external_singed_message(checks, seqno, MixerContract, value.val,
                                            now, body.cell)

\* contract_invoke_collect from the fetched seqno to the signed envelope
collect_transaction(checks, seqno, now, message_data) ==
    LET body == CollectMessage_build(message_data.mode, now,
                                     message_data.jetton_wallet, message_data.amount)
    IN  IF body.tag # "ok" THEN Panic
        ELSE create_external_singed_message(checks, seqno, MixerContract, CollectValue,
                                            now, body.cell)

(***************************************************************************)
(* The encoders and the envelope builder applied to drawn arguments        *)
(***************************************************************************)
MaxEntries == 2
MaxMode == 5

NReq == 2

Requests == 1..NReq

SeqsUpTo(S, n) == UNION {[1..k -> S] : k \in 0..n}

\* 0, a present-day time, 2^32 - 61, 2^32 - 60, 2^32 and 2^64 - 1 seconds
TNow == FromInt(1700000000, 4)
Timestamps ==
    {Zeros(4), TNow, <<Base - 61, Base - 1, 0, 0>>, <<Base - 60, Base - 1, 0, 0>>,
     <<0, 0, 1, 0>>, U64Max}

\* 1.5, 2.5, 18e9 and 20e9 currency units, and -1
Amounts ==
    {F64(FALSE, 15, 8), F64(FALSE, 25, 8), F64(FALSE, 18, 18), F64(FALSE, 2, 19),
     F64(TRUE, 1, 9)}

AddressStrings == {"EQ_A", "EQ_B", "not-an-address"}

SpreadItems == [account : AddressStrings, amount : Amounts]

Idle == [pc |-> "idle"]

UnitOff == [fn |-> "off"]

Pending == [tag |-> "pending"]

InitUnit ==
    /\ overflowChecks \in BOOLEAN
    /\ chainSeqno = 0
    /\ req = [r \in Requests |-> Idle]
    /\ \/ \E t \in Timestamps :
             unit = [fn |-> "fork", timestamp |-> t, out |-> Pending]
       \/ \E m \in 0..MaxMode \cup {255}, t \in {TNow, U64Max},
             w \in {None, Some(AddrA), Some(AddrB)},
             a \in {None, Some(<<>>), Some(Trim(ToNano(F64(FALSE, 15, 8)))),
                    Some(U64Max)} :
             unit = [fn |-> "collect", mode |-> m, timestamp |-> t,
                     jetton_wallet |-> w, amount |-> a, out |-> Pending]
       \/ \E t \in Timestamps, n \in 0..1, v \in {ForkValue, U64Max} :
             unit = [fn |-> "envelope", now |-> t, seqno |-> n, amount |-> v,
                     out |-> Pending]
       \/ \E ws \in SeqsUpTo(SpreadItems, MaxEntries) :
             unit = [fn |-> "spread", wallets |-> ws, now |-> TNow, out |-> Pending]

UnitFork ==
    /\ unit.fn = "fork" /\ unit.out = Pending
    /\ unit' = [unit EXCEPT !.out = ForkMessage_build(unit.timestamp)]
    /\ UNCHANGED <<overflowChecks, chainSeqno, req>>

UnitCollect ==
    /\ unit.fn = "collect" /\ unit.out = Pending
    /\ unit' = [unit EXCEPT !.out = CollectMessage_build(unit.mode, unit.timestamp,
                                         unit.jetton_wallet, unit.amount)]
    /\ UNCHANGED <<overflowChecks, chainSeqno, req>>

UnitEnvelope ==
    /\ unit.fn = "envelope" /\ unit.out = Pending
    /\ unit' = [unit EXCEPT !.out =
                    create_external_singed_message(overflowChecks, unit.seqno,
                        MixerContract, unit.amount, unit.now,
                        ForkMessage_build(TNow).cell)]
    /\ UNCHANGED <<overflowChecks, chainSeqno, req>>

\* POST /spread from the request body to the envelope, the network left out
UnitSpread ==
    /\ unit.fn = "spread" /\ unit.out = Pending
    /\ LET svc == spread_service(overflowChecks, unit.wallets)
       IN  unit' = [unit EXCEPT !.out =
                       IF svc.tag # "ok" THEN Panic
                       ELSE spread_transaction(overflowChecks, 0, unit.now,
                                               svc.total, svc.wallets)]
    /\ UNCHANGED <<overflowChecks, chainSeqno, req>>

NextUnit == UnitFork \/ UnitCollect \/ UnitEnvelope \/ UnitSpread

SpecUnit == InitUnit /\ [][NextUnit]_vars

(***************************************************************************)
(* The HTTP handlers and the LedgerGateway, one worker per request.  A     *)
(* step runs a handler from one suspension point (an await of the ledger   *)
(* client) to the next.                                                    *)
(***************************************************************************)
GoodItem == [account |-> "EQ_A", amount |-> F64(FALSE, 15, 8)]
BadItem == [account |-> "not-an-address", amount |-> F64(FALSE, 25, 8)]

\* the bodies of POST /spread
SpreadBodies == {<<>>, <<GoodItem>>, <<BadItem>>, <<GoodItem, BadItem>>}

CollectPayload(mode, jetton_wallet, amount) ==
    [mode |-> mode, jetton_wallet |-> jetton_wallet, amount |-> amount]

\* the bodies of POST /collect
CollectBodies ==
    {CollectPayload(0, None, None),
     CollectPayload(1, Some("EQ_A"), Some(F64(FALSE, 15, 8))),
     CollectPayload(2, Some("not-an-address"), None),
     CollectPayload(3, Some("EQ_A"), Some(F64(FALSE, 15, 8))),
     CollectPayload(3, None, Some(F64(FALSE, 15, 8))),
     CollectPayload(3, Some("EQ_A"), None),
     CollectPayload(3, Some("not-an-address"), Some(F64(FALSE, 15, 8))),
     CollectPayload(4, None, None)}

\* a request in a handler: what it was sent, what it holds, what it has done;
\* seqno is the local that seqno() fills, kept as a record of the run
Started(kind, body) ==
    [pc |-> "client", kind |-> kind, body |-> body, data |-> None,
     client |-> FALSE, fetched |-> FALSE, cells |-> FALSE, sends |-> 0,
     tx |-> None, status |-> 0, fail |-> "none",
     seqno |-> None]

\* the handler panicked: the worker unwinds and no response is written
Panicked(q, why) == [q EXCEPT !.pc = "panicked", !.fail = why, !.data = None, !.tx = None]

\* the handler returned a response
Responded(q, status) == [q EXCEPT !.pc = "done", !.status = status, !.data = None, !.tx = None]

Init ==
    /\ overflowChecks \in BOOLEAN
    /\ chainSeqno = 0
    /\ req = [r \in Requests |-> Idle]
    /\ unit = UnitOff

\* POST /fork: controllers::fork, services::fork, contract_invoke_fork to ton_client()
PostFork(r) ==
    /\ req[r] = Idle
    /\ req' = [req EXCEPT ![r] = Started("fork", None)]
    /\ UNCHANGED <<overflowChecks, chainSeqno, unit>>

\* POST /spread: controllers::spread, services::spread, contract_invoke_spread to
\* ton_client()
PostSpread(r) ==
    /\ req[r] = Idle
    /\ \E body \in SpreadBodies :
          LET q == Started("spread", body)
              svc == spread_service(overflowChecks, body)
          IN  req' = [req EXCEPT ![r] =
                         IF svc.tag # "ok" THEN Panicked(q, "validation")
                         ELSE [q EXCEPT !.data = Some([total |-> svc.total,
                                                       wallets |-> svc.wallets])]]
    /\ UNCHANGED <<overflowChecks, chainSeqno, unit>>

\* the checks of controllers::collect: a 400 message, or "" when they pass
collect_controller(payload) ==
    IF payload.mode = 3
    THEN IF ~payload.jetton_wallet.some
         THEN "in collection mode 3 field jetton_wallet is required"
         ELSE IF TonAddress_from_str(payload.jetton_wallet.val).tag # "ok"
         THEN "address parse error"
         ELSE IF ~payload.amount.some
         THEN "in collection mode 3 field amount is required"
         ELSE ""
    ELSE ""

\* POST /collect: controllers::collect, services::collect, contract_invoke_collect
\* to ton_client()
PostCollect(r) ==
    /\ req[r] = Idle
    /\ \E body \in CollectBodies :
          LET q == Started("collect", body)
              svc == collect_service(body)
          IN  req' = [req EXCEPT ![r] =
                         IF collect_controller(body) # "" THEN Responded(q, 400)
                         ELSE IF svc.tag # "ok" THEN Panicked(q, "validation")
                         ELSE [q EXCEPT !.data = Some(svc.data)]]
    /\ UNCHANGED <<overflowChecks, chainSeqno, unit>>

\* ton_client() and the contract factory are built; wallet_contract.seqno() is called
ClientReady(r) ==
    /\ req[r].pc = "client"
    /\ req' = [req EXCEPT ![r] = [@ EXCEPT !.pc = "seqno", !.client = TRUE]]
    /\ UNCHANGED <<overflowChecks, chainSeqno, unit>>

\* ton_client() fails: panic!; or the factory fails: unwrap
ClientFails(r) ==
    /\ req[r].pc = "client"
    /\ req' = [req EXCEPT ![r] = Panicked(@, "client")]
    /\ UNCHANGED <<overflowChecks, chainSeqno, unit>>

\* the payload and the envelope of the request's operation
transaction(checks, q, seqno, now) ==
    IF q.kind = "fork" THEN fork_transaction(checks, seqno, now)
    ELSE IF q.kind = "spread"
    THEN spread_transaction(checks, seqno, now, q.data.val.total, q.data.val.wallets)
    ELSE collect_transaction(checks, seqno, now, q.data.val)

\* the sequence number read once when the process started and used ever after
SeqnoReturns_cached(r) ==
    /\ req[r].pc = "seqno"
    /\ LET q == [req[r] EXCEPT !.fetched = TRUE, !.seqno = Some(0)]
           t == transaction(overflowChecks, q, q.seqno.val, TNow)
       IN  req' = [req EXCEPT ![r] =
                      IF t.tag # "ok" THEN Panicked(q, "encode")
                      ELSE [q EXCEPT !.pc = "sending", !.cells = TRUE, !.sends = 1,
                                     !.data = None, !.tx = Some(t.tx)]]
    /\ UNCHANGED <<overflowChecks, chainSeqno, unit>>

\* seqno() returns the wallet's counter; the payload and the envelope are built and
\* send_raw_message_return_hash is called
SeqnoReturns(r) ==
    /\ req[r].pc = "seqno"
    /\ LET q == [req[r] EXCEPT !.fetched = TRUE, !.seqno = Some(chainSeqno)]
           t == transaction(overflowChecks, q, q.seqno.val, TNow)
       IN  req' = [req EXCEPT ![r] =
                      IF t.tag # "ok" THEN Panicked(q, "encode")
                      ELSE [q EXCEPT !.pc = "sending", !.cells = TRUE, !.sends = 1,
                                     !.data = None, !.tx = Some(t.tx)]]
    /\ UNCHANGED <<overflowChecks, chainSeqno, unit>>

\* seqno() fails: unwrap
SeqnoFails(r) ==
    /\ req[r].pc = "seqno"
    /\ req' = [req EXCEPT ![r] = Panicked(@, "seqno")]
    /\ UNCHANGED <<overflowChecks, chainSeqno, unit>>

\* the wallet contract accepts the envelope: its counter advances, the hash returns
\* and the handler answers 200 with the hash in hex and base64
SendAccepted(r) ==
    /\ req[r].pc = "sending"
    /\ req[r].tx.val.seqno = chainSeqno
    /\ chainSeqno' = chainSeqno + 1
    /\ req' = [req EXCEPT ![r] = Responded(@, 200)]
    /\ UNCHANGED <<overflowChecks, unit>>

\* the submission fails (a stale sequence number, or the transport): unwrap
SendFails(r) ==
    /\ req[r].pc = "sending"
    /\ req' = [req EXCEPT ![r] = Panicked(@, "send")]
    /\ UNCHANGED <<overflowChecks, chainSeqno, unit>>

Next ==
    \E r \in Requests :
        \/ PostFork(r) \/ PostSpread(r) \/ PostCollect(r)
        \/ ClientReady(r) \/ ClientFails(r)
        \/ SeqnoReturns(r) \/ SeqnoFails(r)
        \/ SendAccepted(r) \/ SendFails(r)

Spec == Init /\ [][Next]_vars

(***************************************************************************)
(* send_with_retrys, one step per answer of the ledger client and per      *)
(* sleep                                                                   *)
(***************************************************************************)
\* let max = 2
MaxRetries == 2

MaxRetrySeqno == 2

\* the guard with one retry too many
retry_on_error_inclusive(attempts) == attempts <= MaxRetries

\* Err(e) if attempts < max
retry_on_error(attempts) == attempts < MaxRetries

\* Duration::from_secs(2u64.pow(attempts))
backoff_secs(attempts) == 2 ^ attempts

\* hashes that send_raw_message_return_hash may return
Hashes == {<<171, 205>>, <<18, 52, 86>>}

ClientErr == [tag |-> "err"]

ClientOk(h) == [tag |-> "ok", hash |-> h]

\* the serialized envelopes handed to send_with_retrys
RetryTxs(checks) ==
    {fork_transaction(checks, n, TNow).tx : n \in 0..MaxRetrySeqno}
        \cup {collect_transaction(checks, n, TNow,
                  [mode |-> 0, jetton_wallet |-> None, amount |-> None]).tx :
              n \in 0..MaxRetrySeqno}

InitRetry ==
    /\ overflowChecks \in BOOLEAN
    /\ chainSeqno = 0
    /\ req = [r \in Requests |-> Idle]
    /\ \E t \in RetryTxs(overflowChecks) :
          unit = [fn |-> "retry", tx |-> t, pc |-> "call", attempts |-> 0,
                  answers |-> <<>>, slept |-> <<>>, out |-> Pending]

\* Ok(ans) => return ans
RetrySendOk ==
    /\ unit.fn = "retry" /\ unit.pc = "call"
    /\ \E h \in Hashes :
          unit' = [unit EXCEPT !.answers = Append(@, ClientOk(h)),
                               !.pc = "returned", !.out = h]
    /\ UNCHANGED <<overflowChecks, chainSeqno, req>>

\* Err(e): to the sleep while attempts < max, else return Vec::new()
RetrySendErr ==
    /\ unit.fn = "retry" /\ unit.pc = "call"
    /\ unit' = IF retry_on_error(unit.attempts)
               THEN [unit EXCEPT !.answers = Append(@, ClientErr), !.pc = "sleep"]
               ELSE [unit EXCEPT !.answers = Append(@, ClientErr),
                                 !.pc = "returned", !.out = <<>>]
    /\ UNCHANGED <<overflowChecks, chainSeqno, req>>

\* thread::sleep returns; attempts += 1; the loop calls the client again
RetrySleep ==
    /\ unit.fn = "retry" /\ unit.pc = "sleep"
    /\ unit' = [unit EXCEPT !.slept = Append(@, backoff_secs(unit.attempts)),
                            !.attempts = @ + 1, !.pc = "call"]
    /\ UNCHANGED <<overflowChecks, chainSeqno, req>>

NextRetry == RetrySendOk \/ RetrySendErr \/ RetrySleep

\* the client answers every call and every sleep ends
SpecRetry == InitRetry /\ [][NextRetry]_vars /\ WF_vars(NextRetry)

(***************************************************************************)
(* Reading cells back, as the contract does                                *)
(***************************************************************************)
LoadUint(bits, pos, w) == BitsLimbs(SubSeq(bits, pos, pos + w - 1))

LoadAddress(bits, pos) ==
    [tag |-> SubSeq(bits, pos, pos + 1),
     anycast |-> bits[pos + 2],
     workchain |-> BitsInt(SubSeq(bits, pos + 3, pos + 10)),
     hash_part |-> LoadUint(bits, pos + 11, 256)]

LoadCoins(bits, pos) ==
    LET n == BitsInt(SubSeq(bits, pos, pos + 3))
    IN  [len |-> n, val |-> Trim(LoadUint(bits, pos + 4, 8 * n))]

RECURSIVE SumEntries(_)
\* the exact sum of the amounts of a payload chain
SumEntries(cell) ==
    IF cell.refs = <<>> THEN <<>>
    ELSE Trim(Add(LoadCoins(cell.bits, 268).val, SumEntries(cell.refs[1])))

\* the request is one that client-input validation has to refuse
ValidationFailure(q) ==
    /\ q.pc # "idle"
    /\ \/ /\ q.kind = "spread"
          /\ \E i \in 1..Len(q.body) : TonAddress_from_str(q.body[i].account).tag = "err"
       \/ /\ q.kind = "collect"
          /\ \/ /\ q.body.jetton_wallet.some
                /\ TonAddress_from_str(q.body.jetton_wallet.val).tag = "err"
             \/ /\ q.body.mode = 3
                /\ ~(q.body.jetton_wallet.some /\ q.body.amount.some)
             \/ q.body.mode \notin {0, 1, 2, 3}

(***************************************************************************)
(* The claims                                                              *)
(***************************************************************************)

\* C1: no two submissions in flight at the same time carry the same sequence
\* number.
C1_NoSharedSeqnoInFlight ==
    \A r1 \in Requests, r2 \in Requests :
        (r1 # r2 /\ req[r1].pc = "sending" /\ req[r2].pc = "sending")
            => req[r1].tx.val.seqno # req[r2].tx.val.seqno

\* C2: a request that fails validation creates no ledger client, fetches no
\* sequence number, builds no cell and submits nothing.
C2_ValidationBeforeNetwork ==
    \A r \in Requests :
        ValidationFailure(req[r])
            => (~req[r].client /\ ~req[r].fetched /\ ~req[r].cells /\ req[r].sends = 0)

\* C3: a request that fails validation ends in a 4xx response, never in a
\* panic of the handler.
C3_ValidationErrorIs4xx ==
    \A r \in Requests :
        ValidationFailure(req[r])
            => (req[r].pc # "panicked"
                /\ (req[r].pc = "done" => req[r].status \in 400..499))

\* C4: a submission failure is surfaced only after the envelope was submitted
\* three times (once, and two retries).
C4_SubmissionRetried ==
    \A r \in Requests :
        (req[r].pc # "idle" /\ req[r].fail = "send") => req[r].sends = 1 + MaxRetries

\* C5: a failure of the sequence-number fetch, of the payload encoding or of
\* the submission ends the handler with an error response, not with a panic.
C5_FailureIsTypedError ==
    \A r \in Requests :
        (req[r].pc # "idle" /\ req[r].fail \in {"seqno", "encode", "send"})
            => (req[r].pc = "done" /\ req[r].status \in 500..599)

\* C6: CollectMessage.build succeeds exactly for mode 0, 1, 2 and for mode 3
\* with both fields present; otherwise it returns an error value; it never
\* panics.
C6_CollectBuildOutcome ==
    (unit.fn = "collect" /\ unit.out # Pending)
        => /\ unit.out.tag \in {"ok", "err"}
           /\ unit.out.tag = "ok"
                  <=> \/ unit.mode \in {0, 1, 2}
                      \/ unit.mode = 3 /\ unit.jetton_wallet.some /\ unit.amount.some

C6_Witness ==
    /\ unit.fn = "collect" /\ unit.mode = 3
    /\ unit.jetton_wallet.some /\ ~unit.amount.some
    /\ unit.out.tag = "err"

\* C7: the collect cell is opcode(32), timestamp(64), mode(8); nothing follows
\* for mode 0, 1, 2; for mode 3 the jetton-wallet address and then the amount
\* follow, and nothing else.
C7_CollectLayout ==
    (unit.fn = "collect" /\ unit.out.tag = "ok")
        => LET bits == unit.out.cell.bits
           IN  /\ unit.out.cell.refs = <<>>
               /\ Len(bits) >= 104
               /\ LoadUint(bits, 1, 32) = get_opcodes.collect
               /\ LoadUint(bits, 33, 64) = unit.timestamp
               /\ LoadUint(bits, 97, 8) = <<unit.mode>>
               /\ unit.mode \in {0, 1, 2} => Len(bits) = 104
               /\ unit.mode = 3
                     => /\ Len(bits) >= 104 + 267 + 4
                        /\ LoadAddress(bits, 105) =
                               [tag |-> <<1, 0>>, anycast |-> 0,
                                workchain |-> unit.jetton_wallet.val.workchain % 256,
                                hash_part |-> unit.jetton_wallet.val.hash_part]
                        /\ Len(bits) = 104 + 267 + 4 + 8 * BitsInt(SubSeq(bits, 372, 375))
                        /\ LoadCoins(bits, 372).val = Trim(unit.amount.val)

C7_Witness ==
    /\ unit.fn = "collect" /\ unit.mode = 3 /\ unit.out.tag = "ok"
    /\ unit.jetton_wallet = Some(AddrB) /\ unit.amount = Some(U64Max)

\* C8: the total-amount field of the spread header equals the sum of the
\* amounts of the payload entries, and the envelope's value equals that total
\* plus 5,000,000.
C8_SpreadTotalIsSum ==
    (unit.fn = "spread" /\ unit.out.tag = "ok")
        => LET body == unit.out.tx.body
               total == LoadUint(body.bits, 97, 64)
           IN  /\ Trim(total) = SumEntries(body.refs[1])
               /\ Trim(unit.out.tx.value) = Trim(Add(total, FromInt(5000000, 2)))

\* C9: the expiry of the external body equals the construction time plus 60.
C9_ExpiryIsNowPlus60 ==
    (unit.fn = "envelope" /\ unit.out.tag = "ok")
        => Trim(unit.out.tx.expire_at) = Trim(Add(unit.now, <<60>>))

\* C10: the fork cell read as a 32-bit and a 64-bit field yields the opcode
\* that /op_codes reports for fork and the timestamp; it holds no other bit
\* and no reference.
C10_ForkRoundTrip ==
    (unit.fn = "fork" /\ unit.out # Pending)
        => /\ unit.out.tag = "ok"
           /\ unit.out.cell.refs = <<>>
           /\ Len(unit.out.cell.bits) = 32 + 64
           /\ LoadUint(unit.out.cell.bits, 1, 32) = get_opcodes.fork
           /\ LoadUint(unit.out.cell.bits, 33, 64) = unit.timestamp

C10_Witness ==
    unit.fn = "fork" /\ unit.out.tag = "ok" /\ unit.timestamp = U64Max

RECURSIVE ChainEntries(_)
\* the (address, amount) pairs met on the walk from a payload cell down its
\* first reference; a cell without a reference ends the walk
ChainEntries(cell) ==
    IF cell.refs = <<>> THEN <<>>
    ELSE <<[account |-> LoadAddress(cell.bits, 1), amount |-> LoadCoins(cell.bits, 268).val]>>
             \o ChainEntries(cell.refs[1])

RECURSIVE ChainCells(_)
\* the cells of that walk, the last one included
ChainCells(cell) ==
    IF cell.refs = <<>> THEN <<cell>> ELSE <<cell>> \o ChainCells(cell.refs[1])

\* what reading an entry back has to give
StoredEntry(e) ==
    [account |-> [tag |-> <<1, 0>>, anycast |-> 0,
                  workchain |-> e.account.workchain % 256,
                  hash_part |-> e.account.hash_part],
     amount |-> Trim(e.amount)]

\* C11: the spread payload is a chain of one cell per entry ending in the
\* empty cell: every entry cell holds one (address, amount) pair and one
\* reference, and the walk from the root meets the entries in the reverse of
\* the input order; for no entries the payload is the empty cell.
C11_SpreadChain ==
    (unit.fn = "spread" /\ unit.out.tag = "ok")
        => LET entries == spread_service(overflowChecks, unit.wallets).wallets
               n == Len(entries)
               root == unit.out.tx.body.refs[1]
               cells == ChainCells(root)
               walk == ChainEntries(root)
           IN  /\ Len(cells) = n + 1
               /\ cells[n + 1] = [bits |-> <<>>, refs |-> <<>>]
               /\ \A k \in 1..n :
                     /\ Len(cells[k].refs) = 1
                     /\ Len(cells[k].bits) =
                            267 + 4 + 8 * BitsInt(SubSeq(cells[k].bits, 268, 271))
                     /\ walk[k] = StoredEntry(entries[n + 1 - k])

C11_Witness ==
    /\ unit.fn = "spread" /\ unit.out.tag = "ok"
    /\ Len(unit.wallets) = 2
    /\ unit.wallets[1].account = "EQ_A" /\ unit.wallets[2].account = "EQ_B"
    /\ unit.wallets[1].amount # unit.wallets[2].amount

\* what holds of a request at every moment of its handler
Lifecycle(q) ==
    /\ q.sends <= 1
    /\ q.fetched <=> q.seqno.some
    /\ q.cells => q.fetched
    /\ (q.sends = 1) => q.cells
    /\ (q.pc \in {"client", "seqno"})
           => (~q.fetched /\ ~q.cells /\ q.sends = 0 /\ ~q.tx.some)
    /\ (q.pc = "sending")
           => (q.sends = 1 /\ q.tx.some /\ q.tx.val.seqno = q.seqno.val)
    /\ (q.pc \in {"done", "panicked"}) => ~q.tx.some

\* request r submits in this step, after the submission of r1 was accepted
SubmitsAfter(r1, r) ==
    /\ r1 # r
    /\ req[r1].pc = "done" /\ req[r1].status = 200
    /\ req[r].pc = "seqno" /\ req'[r].pc = "sending"

\* C12: a request fetches the sequence number once, then builds the payload
\* and the envelope with the fetched value, then submits it at most once, and
\* starts with nothing kept from an earlier request; so a request that runs
\* after another one's submission was accepted submits a larger sequence
\* number.
C12_RequestLifecycle ==
    /\ [](\A r \in Requests : req[r].pc # "idle" => Lifecycle(req[r]))
    /\ [][\A r1 \in Requests, r \in Requests :
             SubmitsAfter(r1, r) => req'[r].tx.val.seqno > req[r1].seqno.val]_vars

C12_Witness ==
    \E r1 \in Requests, r2 \in Requests :
        /\ req[r1].pc = "done" /\ req[r1].status = 200 /\ req[r1].kind = "spread"
        /\ req[r2].pc = "done" /\ req[r2].status = 200 /\ req[r2].kind = "collect"
        /\ req[r2].seqno.val > req[r1].seqno.val

\* what holds of send_with_retrys at every moment
RetryBounded ==
    unit.fn = "retry"
        => /\ Len(unit.answers) <= 3
           /\ Len(unit.slept) <= 2
           /\ \A i \in 1..Len(unit.slept) : unit.slept[i] = <<1, 2>>[i]
           /\ (unit.pc = "call") => (Len(unit.slept) = Len(unit.answers))
           /\ \A i \in 1..(Len(unit.answers) - 1) : unit.answers[i] = ClientErr
           /\ (unit.pc = "returned")
                  => LET n == Len(unit.answers)
                     IN  \/ unit.answers[n].tag = "ok" /\ unit.out = unit.answers[n].hash
                         \/ n = 3 /\ unit.answers[n] = ClientErr /\ unit.out = <<>>

\* C13: send_with_retrys always returns; it calls the client at most three
\* times, sleeps 1 second before the second call and 2 seconds before the
\* third, returns the hash of the first call that succeeds and calls no more,
\* and gives up after the third failure in a row.
C13_RetryTerminates ==
    []RetryBounded /\ <>(unit.pc = "returned")

C13_Witness ==
    /\ unit.fn = "retry" /\ unit.pc = "returned"
    /\ unit.answers = <<ClientErr, ClientErr, ClientErr>>
    /\ unit.slept = <<1, 2>>

RECURSIVE WithinLimits(_)
\* the cell and every cell below it holds at most 1023 bits and 4 references
WithinLimits(cell) ==
    /\ Len(cell.bits) <= 1023
    /\ Len(cell.refs) <= 4
    /\ \A i \in 1..Len(cell.refs) : WithinLimits(cell.refs[i])

\* the bits of an amount stored in full: the length and the value's bytes
CoinsLen(val) == 4 + 8 * ((NumBits(val) + 7) \div 8)

RECURSIVE OneEntryPerCell(_, _)
\* the chain below cell holds the entries, last first, each alone and in full
\* in a cell with one reference, and ends in the empty cell
OneEntryPerCell(cell, entries) ==
    IF entries = <<>> THEN cell = [bits |-> <<>>, refs |-> <<>>]
    ELSE /\ Len(cell.refs) = 1
         /\ Len(cell.bits) = 267 + CoinsLen(entries[Len(entries)].amount)
         /\ OneEntryPerCell(cell.refs[1], SubSeq(entries, 1, Len(entries) - 1))

\* C14: every cell of the fork, spread and collect encoders and of the spread
\* payload stays within 1023 bits and 4 references and holds its fields in
\* full; the spread payload holds one entry and one reference per cell for
\* any number of entries.
C14_CellLimits ==
    /\ (unit.fn = "fork" /\ unit.out.tag = "ok")
          => (WithinLimits(unit.out.cell) /\ Len(unit.out.cell.bits) = 32 + 64)
    /\ (unit.fn = "collect" /\ unit.out.tag = "ok")
          => /\ WithinLimits(unit.out.cell)
             /\ Len(unit.out.cell.bits) =
                    IF unit.mode = 3
                    THEN 32 + 64 + 8 + 267 + CoinsLen(unit.amount.val)
                    ELSE 32 + 64 + 8
    /\ (unit.fn = "spread" /\ unit.out.tag = "ok")
          => LET body == unit.out.tx.body
             IN  /\ WithinLimits(body)
                 /\ Len(body.bits) = 32 + 64 + 64 + 8 + 1
                 /\ Len(body.refs) = 1
                 /\ OneEntryPerCell(body.refs[1],
                        spread_service(overflowChecks, unit.wallets).wallets)

C14_Witness ==
    /\ unit.fn = "spread" /\ unit.out.tag = "ok"
    /\ Len(unit.wallets) = MaxEntries
    /\ \E i \in 1..Len(unit.wallets) : ToNano(unit.wallets[i].amount) = U64Max

=============================================================================
